---- MODULE Spec2Model ----
(***************************************************************************)
(* Model of miniizi-api (src/main.py): the tariff-code window selector,    *)
(* the NF-e item extractor, the content-addressed XML store and the        *)
(* /analisa item-resolution loop.                                          *)
(*                                                                         *)
(* Python strings are sequences of one-character strings, so that strip,   *)
(* re.sub and zfill are computed and not assumed.  None is NoneVal.        *)
(***************************************************************************)
EXTENDS Integers, Sequences, FiniteSets, TLC

VARIABLES
    ncm_in,      \* escolhe_view_por_ncm: the argument pr_ncm
    ncm_view,    \* escolhe_view_por_ncm: the returned view, or Pending
    xml_doc,     \* parse_nfe_itens: the argument xml_bytes
    parse_out,   \* parse_nfe_itens: what the call produced, or Pending
    upl,         \* analisa_xml: each request's upload, position and locals
    xml_bruto,   \* table xml_bruto: the committed rows, in insertion order
    trx,         \* each request's open transaction: its uncommitted rows
    req,         \* analisa: the AnalisaRequest
    an           \* analisa: position, connection, locals, resultados, response

ncmVars == <<ncm_in, ncm_view>>
parseVars == <<xml_doc, parse_out>>
uplVars == <<upl, xml_bruto, trx>>
anVars == <<req, an>>
vars == <<ncm_in, ncm_view, xml_doc, parse_out, upl, xml_bruto, trx, req, an>>

\* The value of a component's variables in a specification that does not run it.
Idle == "idle"

IdleNcm == ncm_in = Idle /\ ncm_view = Idle

IdleParse == xml_doc = Idle /\ parse_out = [state |-> Idle]

IdleUpload == upl = <<>> /\ xml_bruto = <<>> /\ trx = <<>>

IdleAnalisa == req = Idle /\ an = [pc |-> Idle]

\* Python's None.  A one-element sequence holding a four-character string:
\* no sequence of one-character strings is equal to it.
NoneVal == <<"None">>

\* A call that has not returned yet.
Pending == "pending"

(***************************************************************************)
(* Views (src/main.py:28-29)                                               *)
(***************************************************************************)
VIEW_7D == "v_preco_stats_7d"
VIEW_90D == "v_preco_stats_90d"

(***************************************************************************)
(* String helpers: the Python built-ins the code calls.                    *)
(***************************************************************************)
Digits == {"0", "1", "2", "3", "4", "5", "6", "7", "8", "9"}

DigitVal(c) ==
    CASE c = "0" -> 0 [] c = "1" -> 1 [] c = "2" -> 2 [] c = "3" -> 3
      [] c = "4" -> 4 [] c = "5" -> 5 [] c = "6" -> 6 [] c = "7" -> 7
      [] c = "8" -> 8 [] c = "9" -> 9

\* re.sub(r"\D", "", s): s with every non-digit character deleted.
RECURSIVE re_sub_D(_)
re_sub_D(s) ==
    IF s = <<>> THEN <<>>
    ELSE IF Head(s) \in Digits THEN <<Head(s)>> \o re_sub_D(Tail(s))
    ELSE re_sub_D(Tail(s))

\* str.zfill(width) on a string that carries no sign.
RECURSIVE zfill(_, _)
zfill(s, width) == IF Len(s) >= width THEN s ELSE zfill(<<"0">> \o s, width)

\* int(s) of a non-empty string of decimal digits.
RECURSIVE int(_)
int(s) ==
    IF s = <<>> THEN 0
    ELSE 10 * int(SubSeq(s, 1, Len(s) - 1)) + DigitVal(s[Len(s)])

(***************************************************************************)
(* escolhe_view_por_ncm (src/main.py:138-157)                              *)
(***************************************************************************)
\* A slip in the comparison: the threshold itself is sent to the long window.
escolhe_view_strict(pr_ncm) ==
    IF pr_ncm = NoneVal \/ pr_ncm = <<>> THEN VIEW_90D
    ELSE LET digits == re_sub_D(pr_ncm)
             padded == IF Len(digits) < 8 THEN zfill(digits, 8) ELSE digits
         IN  IF Len(padded) # 8 THEN VIEW_90D
             ELSE IF int(padded) < 8000000 THEN VIEW_7D ELSE VIEW_90D

escolhe_view_por_ncm(pr_ncm) ==
    IF pr_ncm = NoneVal \/ pr_ncm = <<>> THEN VIEW_90D          \* if not pr_ncm
    ELSE LET digits == re_sub_D(pr_ncm)
             padded == IF Len(digits) < 8 THEN zfill(digits, 8) ELSE digits
         IN  IF Len(padded) # 8 THEN VIEW_90D
             ELSE IF int(padded) <= 8000000 THEN VIEW_7D ELSE VIEW_90D

(***************************************************************************)
(* Specification SpecNcm: one call of escolhe_view_por_ncm on every tariff *)
(* code of at most MaxNcmLen characters over NcmChars, and on None.        *)
(***************************************************************************)
MaxNcmLen == 9

NcmChars == {"0", "8", "."}

\* Every sequence of at most n elements of S.
SeqsUpTo(S, n) == UNION {[1..k -> S] : k \in 0..n}

\* The codes the documentation names, beside the exhaustive short alphabet.
NcmSamples ==
    { <<"0", "8", "0", "0", "0", "0", "0", "1">>,
      <<"0", "7", "0", "1", "9", "0", "0", "0">>,
      <<"0", "7", "0", "1", ".", "9", "0", ".", "0", "0">>,
      <<"2", "2", "0", "2", "1", "0", "0", "0">>,
      <<"1">>,
      <<"a", "b", "c">>,
      <<"1", "2", "3", "4", "5", "6", "7", "8", "9">> }

NcmInputs == {NoneVal} \cup SeqsUpTo(NcmChars, MaxNcmLen) \cup NcmSamples

InitNcm ==
    /\ ncm_in \in NcmInputs
    /\ ncm_view = Pending
    /\ IdleParse /\ IdleUpload /\ IdleAnalisa

CallEscolheView ==
    /\ ncm_view = Pending
    /\ ncm_view' = escolhe_view_por_ncm(ncm_in)
    /\ UNCHANGED <<ncm_in, parseVars, uplVars, anVars>>

NextNcm == CallEscolheView

SpecNcm == InitNcm /\ [][NextNcm]_vars

(***************************************************************************)
(* Claims about escolhe_view_por_ncm                                       *)
(***************************************************************************)
\* The reference of C5, written without zfill and int: the digits that
\* remain, their count, and their value as a sum of digit * 10^position.
DigitPositions(s) == {i \in 1..Len(s) : s[i] \in Digits}

DigitsAfter(s, i) == Cardinality({j \in DigitPositions(s) : j > i})

RECURSIVE Pow10(_)
Pow10(k) == IF k = 0 THEN 1 ELSE 10 * Pow10(k - 1)

RECURSIVE SumOver(_, _)
SumOver(s, P) ==
    IF P = {} THEN 0
    ELSE LET i == CHOOSE x \in P : TRUE
         IN  DigitVal(s[i]) * Pow10(DigitsAfter(s, i)) + SumOver(s, P \ {i})

RefValue(s) == SumOver(s, DigitPositions(s))

RefWindow(s) ==
    IF Cardinality(DigitPositions(s)) > 8 THEN VIEW_90D
    ELSE IF RefValue(s) <= 8000000 THEN VIEW_7D ELSE VIEW_90D

HasDigit(c) == c # NoneVal /\ DigitPositions(c) # {}

\* C5: for every tariff code with at least one digit the returned view is the
\* reference's: LONG when more than 8 digits remain, else SHORT iff the value
\* of the digits is <= 8,000,000; "08000000" gives SHORT, "08000001" LONG.
C5_AgreesWithReference ==
    ncm_view \notin {Pending, Idle} =>
        /\ HasDigit(ncm_in) => ncm_view = RefWindow(ncm_in)
        /\ ncm_in = <<"0", "8", "0", "0", "0", "0", "0", "0">> => ncm_view = VIEW_7D
        /\ ncm_in = <<"0", "8", "0", "0", "0", "0", "0", "1">> => ncm_view = VIEW_90D

\* A code with nine digits whose value is below the threshold has been routed.
C5_Witness ==
    /\ ncm_view = VIEW_90D
    /\ ncm_in = <<"0", "0", "0", "0", "0", "0", "0", "0", "8">>

\* C6: a code whose digit content is empty (None, "", or only non-digit
\* characters) is routed to the long window.
C6_NoDigitsGivesLong ==
    (ncm_view \notin {Pending, Idle} /\ ~HasDigit(ncm_in)) => ncm_view = VIEW_90D

(***************************************************************************)
(* XML documents.  The bytes of an upload are modelled by what the parser  *)
(* makes of them: not well-formed ("malformed"), well-formed but declaring *)
(* an entity ("entities"), or an element tree ("tree").  A tree is the     *)
(* document-order list of its elements, each with its depth, as            *)
(* Element.iter() walks it; ns is the namespace URI the document declares  *)
(* ("" for none).                                                          *)
(***************************************************************************)
Whitespace == {" ", "\t", "\n"}

\* Element.tag as ElementTree builds it: "{uri}local", or "local".
Tag(ns, local) == IF ns = "" THEN <<local>> ELSE <<"{", ns, "}", local>>

\* ET.fromstring (src/main.py:12, 273-276).  defusedxml raises ParseError on
\* bytes that are not well-formed and EntitiesForbidden on an entity
\* declaration; the handler of line 275 catches every Exception.
fromstring(xml_bytes) ==
    IF xml_bytes.form # "tree" THEN [raised |-> TRUE, root |-> <<>>]
    ELSE [raised |-> FALSE,
          root |-> [i \in 1..Len(xml_bytes.nodes) |->
                      [depth |-> xml_bytes.nodes[i].depth,
                       tag |-> Tag(xml_bytes.ns, xml_bytes.nodes[i].local),
                       text |-> xml_bytes.nodes[i].text]]]

\* str.strip()
RECURSIVE lstrip(_)
lstrip(s) == IF s # <<>> /\ Head(s) \in Whitespace THEN lstrip(Tail(s)) ELSE s

RECURSIVE rstrip(_)
rstrip(s) ==
    IF s # <<>> /\ s[Len(s)] \in Whitespace THEN rstrip(SubSeq(s, 1, Len(s) - 1)) ELSE s

strip(s) == rstrip(lstrip(s))

\* Python's `x or d` on an Optional[str].
OrElse(x, d) == IF x = NoneVal \/ x = <<>> THEN d ELSE x

\* _strip_ns (src/main.py:264-265): tag.split("}", 1)[-1] if "}" in tag else tag
_strip_ns(tag) ==
    IF \E i \in 1..Len(tag) : tag[i] = "}"
    THEN LET first == CHOOSE i \in 1..Len(tag) :
                          tag[i] = "}" /\ \A j \in 1..(i - 1) : tag[j] # "}"
         IN  SubSeq(tag, first + 1, Len(tag))
    ELSE tag

\* el.iter(): el and its descendants, in document order, as positions of tree.
RECURSIVE iter_from(_, _, _)
iter_from(tree, el, j) ==
    IF j > Len(tree) \/ tree[j].depth <= tree[el].depth THEN <<>>
    ELSE <<j>> \o iter_from(tree, el, j + 1)

iter(tree, el) == <<el>> \o iter_from(tree, el, el + 1)

\* [n for n in el.iter() if _strip_ns(n.tag) == wanted]
\* (src/main.py:268-269 and 292)
_findall_no_ns(tree, el, wanted) ==
    SelectSeq(iter(tree, el), LAMBDA n : _strip_ns(tree[n].tag) = <<wanted>>)

\* get_text without the strip of line 300.
get_text_raw(tree, prod, tagname) ==
    LET found == _findall_no_ns(tree, prod, tagname)
    IN  IF found = <<>> THEN NoneVal
        ELSE OrElse(tree[found[1]].text, <<>>)

\* get_text (src/main.py:297-301): the stripped text of the first element of
\* prod.iter() named tagname, None when there is none.
get_text(tree, prod, tagname) ==
    LET found == _findall_no_ns(tree, prod, tagname)
    IN  IF found = <<>> THEN NoneVal
        ELSE strip(OrElse(tree[found[1]].text, <<>>))

\* The body of the loop over det_nodes (src/main.py:291-314): the items
\* appended for the det elements dets[k..].
RECURSIVE itens_of(_, _, _)
itens_of(tree, dets, k) ==
    IF k > Len(dets) THEN <<>>
    ELSE LET prod_nodes == _findall_no_ns(tree, dets[k], "prod")
         IN  IF prod_nodes = <<>> THEN itens_of(tree, dets, k + 1)
             ELSE LET prod == prod_nodes[1]
                      xprod == OrElse(get_text(tree, prod, "xProd"), <<>>)
                      ucom == OrElse(get_text(tree, prod, "uCom"), <<>>)
                      ncm == OrElse(get_text(tree, prod, "NCM"), <<>>)
                  IN  IF xprod # <<>>
                      THEN <<[pr_nomeProduto |-> xprod,
                              pr_unidade |-> ucom,
                              pr_ncm |-> ncm]>> \o itens_of(tree, dets, k + 1)
                      ELSE itens_of(tree, dets, k + 1)

\* parse_nfe_itens (src/main.py:272-322): the list returned, or the
\* HTTPException raised.
parse_nfe_itens(xml_bytes) ==
    LET parsed == fromstring(xml_bytes)
    IN  IF parsed.raised
        THEN [state |-> "raised", status_code |-> 400, itens |-> <<>>]
        ELSE LET det_nodes == _findall_no_ns(parsed.root, 1, "det")
                 itens == itens_of(parsed.root, det_nodes, 1)
             IN  IF itens = <<>>
                 THEN [state |-> "raised", status_code |-> 422, itens |-> <<>>]
                 ELSE [state |-> "returned", status_code |-> 200, itens |-> itens]

(***************************************************************************)
(* Specification SpecParse: a document of at most MaxNodes elements is     *)
(* written element by element, and parse_nfe_itens is called on it.        *)
(***************************************************************************)
MaxNodes == 4

Namespaces == {"", "http://www.portalfiscal.inf.br/nfe"}

\* The elements a document is built from.  The code reads the text of the
\* xProd, uCom and NCM elements only.
ElementKinds ==
    { [local |-> "det", text |-> NoneVal],
      [local |-> "prod", text |-> NoneVal],
      [local |-> "xProd", text |-> NoneVal],
      [local |-> "xProd", text |-> <<" ", "\n">>],
      [local |-> "xProd", text |-> <<" ", "A", " ">>],
      [local |-> "uCom", text |-> <<"U", "N", " ">>],
      [local |-> "NCM", text |-> <<"0", "8">>] }

Node(d, k) == [depth |-> d, local |-> k.local, text |-> k.text]

\* The documents of one element; AppendElement grows them in document order.
RootDocuments ==
    { [form |-> f, ns |-> ns, nodes |-> <<Node(0, k)>>] :
          f \in {"tree", "entities"}, ns \in Namespaces, k \in ElementKinds }
    \cup { [form |-> "malformed", ns |-> "", nodes |-> <<>>] }

InitParse ==
    /\ xml_doc \in RootDocuments
    /\ parse_out = [state |-> Pending]
    /\ IdleNcm /\ IdleUpload /\ IdleAnalisa

\* The uploader writes one more element: a child of the last element, or a
\* sibling of it or of one of its ancestors below the root.
AppendElement ==
    /\ parse_out.state = Pending
    /\ xml_doc.form = "tree"
    /\ Len(xml_doc.nodes) < MaxNodes
    /\ \E d \in 1..(xml_doc.nodes[Len(xml_doc.nodes)].depth + 1), k \in ElementKinds :
           xml_doc' = [xml_doc EXCEPT !.nodes = Append(@, Node(d, k))]
    /\ UNCHANGED <<parse_out, ncmVars, uplVars, anVars>>

CallParse ==
    /\ parse_out.state = Pending
    /\ parse_out' = parse_nfe_itens(xml_doc)
    /\ UNCHANGED <<xml_doc, ncmVars, uplVars, anVars>>

NextParse == AppendElement \/ CallParse

SpecParse == InitParse /\ [][NextParse]_vars

(***************************************************************************)
(* Claims about parse_nfe_itens                                            *)
(***************************************************************************)
\* Stated on the document itself: element j lies below element i.
Below(nodes, i, j) ==
    j > i /\ \A k \in (i + 1)..j : nodes[k].depth > nodes[i].depth

Within(nodes, i, j) == j = i \/ Below(nodes, i, j)

FirstNamed(nodes, i, name) ==
    {j \in 1..Len(nodes) :
        /\ Within(nodes, i, j) /\ nodes[j].local = name
        /\ \A k \in 1..(j - 1) : Within(nodes, i, k) => nodes[k].local # name}

HasInk(text) == text # NoneVal /\ \E i \in 1..Len(text) : text[i] \notin Whitespace

\* The det element at d yields a product name: the first xProd of its first
\* prod has text that is not only whitespace.
YieldsName(nodes, d) ==
    \E p \in FirstNamed(nodes, d, "prod") :
        \E x \in FirstNamed(nodes, p, "xProd") : HasInk(nodes[x].text)

SomeDetYieldsName(doc) ==
    \E d \in 1..Len(doc.nodes) : doc.nodes[d].local = "det" /\ YieldsName(doc.nodes, d)

WellFormed(doc) == doc.form \in {"tree", "entities"}

NamesAreInked(out) ==
    /\ out.itens # <<>>
    /\ \A i \in 1..Len(out.itens) :
           /\ out.itens[i].pr_nomeProduto # <<>>
           /\ strip(out.itens[i].pr_nomeProduto) # <<>>

\* C7 as stated: for every well-formed document the call returns a non-empty
\* list of items with non-blank names or raises 422, and it raises 422
\* exactly when no det element yields a name.
C7_WellFormedReturnsOr422 ==
    (parse_out.state \in {"returned", "raised"} /\ WellFormed(xml_doc)) =>
        /\ \/ parse_out.state = "returned" /\ NamesAreInked(parse_out)
           \/ parse_out.state = "raised" /\ parse_out.status_code = 422
        /\ (parse_out.state = "raised" /\ parse_out.status_code = 422)
              <=> ~SomeDetYieldsName(xml_doc)

\* C7 amended: for every document the parser accepts (well-formed and
\* declaring no entity) the call returns a non-empty list of items with
\* non-blank names or raises 422, and raises 422 exactly when no det element
\* yields a name; it raises 400 exactly when the parser rejects the bytes.
C7_AcceptedReturnsOr422 ==
    parse_out.state \in {"returned", "raised"} =>
        /\ xml_doc.form = "tree" =>
              /\ \/ parse_out.state = "returned" /\ NamesAreInked(parse_out)
                 \/ parse_out.state = "raised" /\ parse_out.status_code = 422
              /\ (parse_out.state = "raised" /\ parse_out.status_code = 422)
                    <=> ~SomeDetYieldsName(xml_doc)
        /\ (parse_out.state = "raised" /\ parse_out.status_code = 400)
              <=> xml_doc.form # "tree"

\* A namespaced document with a det whose xProd carries a padded name was
\* returned as one item with the name trimmed.
C7_Witness ==
    /\ parse_out.state = "returned"
    /\ xml_doc.form = "tree" /\ xml_doc.ns # ""
    /\ Len(parse_out.itens) = 1
    /\ parse_out.itens[1].pr_nomeProduto = <<"A">>
    /\ \E x \in 1..Len(xml_doc.nodes) : xml_doc.nodes[x].text = <<" ", "A", " ">>

(***************************************************************************)
(* The XML store: salva_xml_no_banco and the /analisa_xml request.         *)
(*                                                                         *)
(* Table xml_bruto carries a UNIQUE index on hash_sha256 (the docstring of *)
(* salva_xml_no_banco requires it).  Every request works on a connection   *)
(* of its own with autocommit off, so a row inserted by cur.execute is     *)
(* visible to others only after conn.commit(); an INSERT of a key another  *)
(* open transaction has inserted waits for that transaction to end.        *)
(***************************************************************************)
NumReq == 2

Reqs == 1..NumReq

DocMalformed == [form |-> "malformed", ns |-> "", nodes |-> <<>>]

DocNoItens ==
    [form |-> "tree", ns |-> "http://www.portalfiscal.inf.br/nfe",
     nodes |-> << Node(0, [local |-> "det", text |-> NoneVal]),
                  Node(1, [local |-> "prod", text |-> NoneVal]),
                  Node(2, [local |-> "xProd", text |-> <<" ">>]) >>]

DocOneItem ==
    [form |-> "tree", ns |-> "http://www.portalfiscal.inf.br/nfe",
     nodes |-> << Node(0, [local |-> "det", text |-> NoneVal]),
                  Node(1, [local |-> "prod", text |-> NoneVal]),
                  Node(2, [local |-> "xProd", text |-> <<"A", " ">>]),
                  Node(2, [local |-> "uCom", text |-> <<"U", "N">>]),
                  Node(2, [local |-> "NCM", text |-> <<"0", "7", "0", "1">>]) >>]

\* The uploads of the requests: the bytes, and the file name and content type
\* the client sent with them.
UploadBytes == {DocMalformed, DocNoItens, DocOneItem}

UploadMeta ==
    { [filename |-> <<"a", ".", "x", "m", "l">>, content_type |-> <<"text/xml">>],
      [filename |-> <<"b", ".", "x", "m", "l">>, content_type |-> NoneVal] }

\* hashlib.sha256(xml_bytes).hexdigest() (src/main.py:70): a function of the
\* bytes alone, with a digest of its own for each payload.
sha256_hexdigest(xml_bytes) ==
    CASE xml_bytes = DocMalformed -> "2c26b46b68ffc68f"
      [] xml_bytes = DocNoItens -> "fcde2b2edba56bf4"
      [] xml_bytes = DocOneItem -> "baa5a0964d3320fb"

\* len(xml_bytes): the size of the payload, here in elements.
len_bytes(xml_bytes) == Len(xml_bytes.nodes)

\* The VALUES tuple of the INSERT (src/main.py:82).
Row(h, filename, content_type, xml_bytes) ==
    [hash_sha256 |-> h, filename |-> filename, content_type |-> content_type,
     tamanho_bytes |-> len_bytes(xml_bytes), xml_blob |-> xml_bytes]

HasHash(rows, h) == \E i \in 1..Len(rows) : rows[i].hash_sha256 = h

\* The rows other requests hold uncommitted.
OthersHold(p, h) == \E q \in Reqs \ {p} : HasHash(trx[q], h)

\* A plain INSERT: the duplicate key raises IntegrityError (1062).
insert_plain(table, locked, row) ==
    IF HasHash(table, row.hash_sha256) THEN "duplicate"
    ELSE IF locked THEN "wait"
    ELSE "inserted"

\* INSERT IGNORE into a table without the UNIQUE index.
insert_no_unique(table, locked, row) == "inserted"

\* INSERT IGNORE INTO xml_bruto (src/main.py:75-83) against the committed
\* table: a committed row of the same hash makes the statement a no-op, a row
\* of the same hash in another open transaction (locked) makes it wait.
insert_ignore(table, locked, row) ==
    IF HasHash(table, row.hash_sha256) THEN "ignored"
    ELSE IF locked THEN "wait"
    ELSE "inserted"

\* A commit that never reaches the table.
commit_lost(table, rows) == table

\* conn.commit() (src/main.py:85): the transaction's rows become table rows.
commit(table, rows) == table \o rows

NoResponse == [status_code |-> 0, hash_xml |-> "", itens |-> <<>>]

ErrorResponse(code) == [status_code |-> code, hash_xml |-> "", itens |-> <<>>]

InitUpload ==
    /\ upl \in [Reqs -> { [xml |-> b, filename |-> m.filename,
                           content_type |-> m.content_type, pc |-> "start",
                           conn |-> "none", h |-> "", insert |-> "", error |-> "",
                           overlap |-> FALSE,
                           response |-> NoResponse] :
                          b \in UploadBytes, m \in UploadMeta }]
    /\ xml_bruto = <<>>
    /\ trx = [p \in Reqs |-> <<>>]
    /\ IdleNcm /\ IdleParse /\ IdleAnalisa

\* An exception leaves the handler: the framework answers 500.  Nothing on the
\* way out closes the connection.
Raise(p, why) ==
    upl' = [upl EXCEPT ![p].pc = "done", ![p].error = why,
                       ![p].response = ErrorResponse(500)]

\* History only (the code keeps no such flag): as p's call begins, another
\* request is inside salva_xml_no_banco with the same bytes.
InFlightSameBytes(p) ==
    \E q \in Reqs \ {p} :
        /\ upl[q].pc \in {"connected", "executed", "committed"}
        /\ upl[q].xml = upl[p].xml

\* src/main.py:70-73: h is computed and get_conn() opens the connection.
GetConn(p) ==
    /\ upl[p].pc = "start"
    /\ upl' = [upl EXCEPT ![p].pc = "connected", ![p].conn = "open",
                          ![p].h = sha256_hexdigest(upl[p].xml),
                          ![p].overlap = InFlightSameBytes(p)]
    /\ UNCHANGED <<xml_bruto, trx, ncmVars, parseVars, anVars>>

\* src/main.py:56-57: the database cannot be reached; get_conn raises
\* HTTPException(500) and no connection exists.
GetConnFails(p) ==
    /\ upl[p].pc = "start"
    /\ Raise(p, "connect")
    /\ UNCHANGED <<xml_bruto, trx, ncmVars, parseVars, anVars>>

\* src/main.py:75-83: cur.execute of the INSERT IGNORE.
ExecuteInsert(p) ==
    /\ upl[p].pc = "connected"
    /\ LET row == Row(upl[p].h, upl[p].filename, upl[p].content_type, upl[p].xml)
           outcome == insert_ignore(xml_bruto, OthersHold(p, upl[p].h), row)
       IN  /\ outcome # "wait"
           /\ IF outcome = "duplicate"
              THEN Raise(p, "duplicate") /\ UNCHANGED trx
              ELSE /\ upl' = [upl EXCEPT ![p].pc = "executed", ![p].insert = outcome]
                   /\ trx' = [trx EXCEPT ![p] =
                                 IF outcome = "inserted" THEN <<row>> ELSE <<>>]
    /\ UNCHANGED <<xml_bruto, ncmVars, parseVars, anVars>>

\* cur.execute raises (server gone, lock wait timeout): nothing was inserted.
ExecuteFails(p) ==
    /\ upl[p].pc = "connected"
    /\ Raise(p, "execute")
    /\ UNCHANGED <<xml_bruto, trx, ncmVars, parseVars, anVars>>

\* src/main.py:85: conn.commit().
Commit(p) ==
    /\ upl[p].pc = "executed"
    /\ xml_bruto' = commit(xml_bruto, trx[p])
    /\ trx' = [trx EXCEPT ![p] = <<>>]
    /\ upl' = [upl EXCEPT ![p].pc = "committed"]
    /\ UNCHANGED <<ncmVars, parseVars, anVars>>

\* conn.commit() raises: the session is lost and the server rolls the
\* transaction back.
CommitFails(p) ==
    /\ upl[p].pc = "executed"
    /\ Raise(p, "commit")
    /\ trx' = [trx EXCEPT ![p] = <<>>]
    /\ UNCHANGED <<xml_bruto, ncmVars, parseVars, anVars>>

\* src/main.py:86-89: cur.close(); conn.close(); return h.
CloseAndReturn(p) ==
    /\ upl[p].pc = "committed"
    /\ upl' = [upl EXCEPT ![p].pc = "stored", ![p].conn = "closed"]
    /\ UNCHANGED <<xml_bruto, trx, ncmVars, parseVars, anVars>>

\* src/main.py:346-355: parse_nfe_itens, then the response: the hash and the
\* items, or the HTTPException of the parser alone.
ParseAndRespond(p) ==
    /\ upl[p].pc = "stored"
    /\ LET out == parse_nfe_itens(upl[p].xml)
       IN  upl' = [upl EXCEPT
                     ![p].pc = "done",
                     ![p].response =
                         IF out.state = "returned"
                         THEN [status_code |-> 200, hash_xml |-> upl[p].h,
                               itens |-> out.itens]
                         ELSE ErrorResponse(out.status_code)]
    /\ UNCHANGED <<xml_bruto, trx, ncmVars, parseVars, anVars>>

NextUpload ==
    \E p \in Reqs :
        \/ GetConn(p) \/ GetConnFails(p)
        \/ ExecuteInsert(p) \/ ExecuteFails(p)
        \/ Commit(p) \/ CommitFails(p)
        \/ CloseAndReturn(p)
        \/ ParseAndRespond(p)

SpecUpload == InitUpload /\ [][NextUpload]_vars

(***************************************************************************)
(* Claims about the XML store                                              *)
(***************************************************************************)
\* salva_xml_no_banco has returned to request p.
Stored(p) == upl[p].pc \in {"stored", "done"} /\ upl[p].error = ""

RowsWithHash(h) == {i \in 1..Len(xml_bruto) : xml_bruto[i].hash_sha256 = h}

UniqueHashes ==
    \A i, j \in 1..Len(xml_bruto) :
        i # j => xml_bruto[i].hash_sha256 # xml_bruto[j].hash_sha256

WrittenBy(r, p) ==
    r = Row(sha256_hexdigest(upl[p].xml), upl[p].filename, upl[p].content_type, upl[p].xml)

C3_State ==
    /\ UniqueHashes
    /\ \A i \in 1..Len(xml_bruto) : \E p \in DOMAIN upl : WrittenBy(xml_bruto[i], p)
    /\ \A p, q \in DOMAIN upl :
           (Stored(p) /\ Stored(q)) =>
               IF upl[p].xml = upl[q].xml
               THEN /\ upl[p].h = upl[q].h
                    /\ Cardinality(RowsWithHash(upl[p].h)) = 1
               ELSE /\ upl[p].h # upl[q].h
                    /\ RowsWithHash(upl[p].h) # {}
                    /\ RowsWithHash(upl[q].h) # {}
                    /\ Len(xml_bruto) >= 2

C3_Step ==
    /\ Len(xml_bruto') >= Len(xml_bruto)
    /\ \A i \in 1..Len(xml_bruto) : xml_bruto'[i] = xml_bruto[i]
    /\ \A p \in DOMAIN upl :
           (upl[p].pc = "executed" /\ upl'[p].pc = "committed"
              /\ HasHash(xml_bruto, upl[p].h)) => xml_bruto' = xml_bruto

\* C3: the table holds at most one row per content hash; a call with bytes
\* already stored returns the same hash, adds no row and leaves the existing
\* row (file name, content type, length, payload) as first written; calls with
\* different bytes return different hashes and leave two rows.
C3_OneRowPerHash == []C3_State /\ [][C3_Step]_vars

\* Both requests stored the same bytes under different file names, the second
\* one after the first had committed; the row is the first one's.
C3_Witness ==
    /\ Stored(1) /\ Stored(2)
    /\ upl[1].xml = upl[2].xml /\ upl[1].filename # upl[2].filename
    /\ upl[1].insert = "inserted" /\ upl[2].insert = "ignored"
    /\ Len(xml_bruto) = 1 /\ WrittenBy(xml_bruto[1], 1)

\* C4: when requests store identical bytes concurrently, however their insert
\* and commit steps interleave, the table ends with exactly one row of that
\* hash, every caller gets the same hash, and none fails on the duplicate.
C4_ConcurrentSameBytes ==
    /\ \A p \in DOMAIN upl : upl[p].error # "duplicate"
    /\ \A p, q \in DOMAIN upl :
           (Stored(p) /\ Stored(q) /\ upl[p].xml = upl[q].xml) =>
               /\ upl[p].h = upl[q].h
               /\ upl[p].h = sha256_hexdigest(upl[p].xml)
               /\ Cardinality(RowsWithHash(upl[p].h)) = 1

\* Two requests were inside salva_xml_no_banco with the same bytes at the same
\* time, and both calls have returned.
C4_Witness ==
    \E p, q \in DOMAIN upl :
        /\ p # q /\ Stored(p) /\ Stored(q)
        /\ upl[p].xml = upl[q].xml
        /\ upl[q].overlap
        /\ Cardinality(RowsWithHash(upl[p].h)) = 1

\* C9: in /analisa_xml the document is stored before extraction: unless a
\* database call failed, a finished request leaves a row keyed by the hash of
\* its bytes, also when extraction raised 400 or 422, and then the caller gets
\* the error without the hash.
C9_StoredBeforeExtraction ==
    \A p \in DOMAIN upl :
        /\ Stored(p) => HasHash(xml_bruto, sha256_hexdigest(upl[p].xml))
        /\ (upl[p].pc = "done" /\ upl[p].error = "") =>
               /\ upl[p].response.status_code \in {200, 400, 422}
               /\ upl[p].response.status_code # 200 => upl[p].response.hash_xml = ""
               /\ upl[p].response.status_code = 200 =>
                      upl[p].response.hash_xml = sha256_hexdigest(upl[p].xml)

\* A request was answered 422 and its document is in the table.
C9_Witness ==
    \E p \in DOMAIN upl :
        /\ upl[p].pc = "done" /\ upl[p].response.status_code = 422
        /\ HasHash(xml_bruto, sha256_hexdigest(upl[p].xml))

(***************************************************************************)
(* The catalogue the /analisa queries read: v_mapa_nomeproduto_norm and    *)
(* the two statistics views.  Read-only; the rows are chosen so that every *)
(* branch of analisa is taken and the two views never hold the same row.   *)
(***************************************************************************)
Mapa(nome, unidade, norm, ocorrencias) ==
    [pr_nomeProduto |-> nome, pr_unidade |-> unidade,
     pr_nomeNorm |-> norm, ocorrencias |-> ocorrencias]

v_mapa_nomeproduto_norm ==
    { Mapa(<<"A">>, <<"U", "N">>, <<"n", "a">>, 5),
      Mapa(<<"A">>, <<"U", "N">>, <<"n", "x">>, 2),
      Mapa(<<"B">>, <<"U", "N">>, <<"n", "b">>, 1) }

Quote(fornecedor, norm, unidade, media, minimo, n) ==
    [pr_nomeFornecedor |-> fornecedor, pr_cnpjFornecedor |-> <<"cnpj">> \o fornecedor,
     pr_nomeNorm |-> norm, pr_unidade |-> unidade, pr_ncm |-> <<"0", "7", "0", "1">>,
     preco_media |-> media, preco_min |-> minimo, n |-> n]

v_preco_stats_7d ==
    { Quote(<<"F", "1">>, <<"n", "a">>, <<"U", "N">>, 10, 9, 5),
      Quote(<<"F", "2">>, <<"n", "a">>, <<"U", "N">>, 8, 7, 3),
      Quote(<<"F", "3">>, <<"n", "a">>, <<"U", "N">>, 8, 6, 1),
      Quote(<<"F", "4">>, <<"n", "a">>, <<"K", "G">>, 1, 1, 9),
      Quote(<<"F", "4">>, <<"n", "x">>, <<"U", "N">>, 2, 1, 9),
      Quote(<<"F", "1">>, <<"n", "b">>, <<"U", "N">>, 4, 3, 2) }

v_preco_stats_90d ==
    { Quote(<<"F", "5">>, <<"n", "a">>, <<"U", "N">>, 7, 5, 9),
      Quote(<<"F", "1">>, <<"n", "a">>, <<"U", "N">>, 11, 9, 4),
      Quote(<<"F", "6">>, <<"n", "x">>, <<"U", "N">>, 3, 2, 10) }

\* FROM {view_stats} (src/main.py:222)
View(view_stats) == IF view_stats = VIEW_7D THEN v_preco_stats_7d ELSE v_preco_stats_90d

\* The query of the map matching on the product name alone.
select_mapa_nome(nome_prod, unidade) ==
    LET matches == {r \in v_mapa_nomeproduto_norm : r.pr_nomeProduto = nome_prod}
    IN  IF matches = {} THEN {<<>>}
        ELSE {<<r>> : r \in {m \in matches :
                                \A o \in matches : o.ocorrencias <= m.ocorrencias}}

\* The first query and its fetchone() (src/main.py:186-196): the rows of the
\* exact (name, unit), the one of most occurrences first, LIMIT 1.  The value
\* is the set of answers the server may give (ties are its choice), each a
\* list of no row (None) or one row.
select_mapa(nome_prod, unidade) ==
    LET matches == {r \in v_mapa_nomeproduto_norm :
                       r.pr_nomeProduto = nome_prod /\ r.pr_unidade = unidade}
    IN  IF matches = {} THEN {<<>>}
        ELSE {<<r>> : r \in {m \in matches :
                                \A o \in matches : o.ocorrencias <= m.ocorrencias}}

\* The orders in which ORDER BY preco_media ASC may list the rows.
SortedByMedia(rows) ==
    {f \in [1..Cardinality(rows) -> rows] :
        /\ \A i, j \in 1..Cardinality(rows) : i # j => f[i] # f[j]
        /\ \A i, j \in 1..Cardinality(rows) : i < j => f[i].preco_media <= f[j].preco_media}

Min(a, b) == IF a < b THEN a ELSE b

\* The second query without its `AND n >= %s`.
select_stats_any_n(view_stats, nome_norm, unidade, n_min, limite) ==
    LET matches == {q \in View(view_stats) :
                       q.pr_nomeNorm = nome_norm /\ q.pr_unidade = unidade}
    IN  {SubSeq(f, 1, Min(limite, Len(f))) : f \in SortedByMedia(matches)}

\* The second query and its fetchall() (src/main.py:211-231): the answers the
\* server may give.
select_stats(view_stats, nome_norm, unidade, n_min, limite) ==
    LET matches == {q \in View(view_stats) :
                       /\ q.pr_nomeNorm = nome_norm
                       /\ q.pr_unidade = unidade
                       /\ q.n >= n_min}
    IN  {SubSeq(f, 1, Min(limite, Len(f))) : f \in SortedByMedia(matches)}

\* The name echoed as the request gave it.
nome_prod_raw(item) == OrElse(item.pr_nomeProduto, <<>>)

\* src/main.py:181: (item.pr_nomeProduto or "").strip()
nome_prod_of(item) == strip(OrElse(item.pr_nomeProduto, <<>>))

\* src/main.py:182: (item.pr_unidade or "").strip()
unidade_of(item) == strip(OrElse(item.pr_unidade, <<>>))

\* src/main.py:199-206
resultado_sem_mapeamento(nome_prod, unidade) ==
    [pr_nomeProduto |-> nome_prod, pr_unidade |-> unidade,
     status |-> "SEM_MAPEAMENTO", fornecedores |-> <<>>]

\* src/main.py:234-242
resultado_dados_insuficientes(nome_prod, unidade, nome_norm) ==
    [pr_nomeProduto |-> nome_prod, pr_unidade |-> unidade, pr_nomeNorm |-> nome_norm,
     status |-> "DADOS_INSUFICIENTES", fornecedores |-> <<>>]

\* src/main.py:245-253
resultado_ok(nome_prod, unidade, nome_norm, fornecedores) ==
    [pr_nomeProduto |-> nome_prod, pr_unidade |-> unidade, pr_nomeNorm |-> nome_norm,
     status |-> "OK", fornecedores |-> fornecedores]

(***************************************************************************)
(* Specification SpecAnalisa: one /analisa request over a batch of at most *)
(* MaxItens items, every database call of which may fail.                  *)
(***************************************************************************)
MaxItens == 3

MaxLimite == 2

\* n_min: the default of AnalisaRequest (3), and 1.
NMinValues == {1, 3}

ItemXML(nome, unidade, ncm) ==
    [pr_nomeProduto |-> nome, pr_unidade |-> unidade, pr_ncm |-> ncm]

Itens ==
    { ItemXML(<<" ", "A">>, <<"U", "N", " ">>, <<"0", "7", "0", "1", "9", "0", "0", "0">>),
      ItemXML(<<"A">>, <<"U", "N">>, <<"2", "2", "0", "2", "1", "0", "0", "0">>),
      ItemXML(<<"A">>, <<"K", "G">>, <<"0", "7", "0", "1", "9", "0", "0", "0">>),
      ItemXML(<<"B", " ">>, <<"U", "N">>, <<"0", "8", "0", "1">>),
      ItemXML(<<"B">>, <<"U", "N">>, NoneVal),
      ItemXML(<<"Z">>, <<"U", "N">>, <<"a", "b", "c">>) }

Requests ==
    { [itens |-> its, limite_fornecedores |-> l, n_min |-> m] :
          its \in SeqsUpTo(Itens, MaxItens), l \in 0..MaxLimite, m \in NMinValues }

InitAnalisa ==
    /\ req \in Requests
    /\ an = [pc |-> "start", conn |-> "none", i |-> 1,
             nome_prod |-> <<>>, unidade |-> <<>>, view_stats |-> "", nome_norm |-> <<>>,
             resultados |-> <<>>, error |-> "",
             response |-> [status_code |-> 0, itens |-> <<>>]]
    /\ IdleNcm /\ IdleParse /\ IdleUpload

\* An exception leaves analisa: the framework answers 500.  Nothing on the way
\* out closes the cursor or the connection.
RaiseAnalisa(why) ==
    an' = [an EXCEPT !.pc = "done", !.error = why,
                     !.response = [status_code |-> 500, itens |-> <<>>]]

\* src/main.py:175-178
AnalisaGetConn ==
    /\ an.pc = "start"
    /\ an' = [an EXCEPT !.pc = "loop", !.conn = "open", !.resultados = <<>>]
    /\ UNCHANGED <<req, ncmVars, parseVars, uplVars>>

\* src/main.py:56-57: get_conn raises HTTPException(500); no connection exists.
AnalisaGetConnFails ==
    /\ an.pc = "start"
    /\ RaiseAnalisa("connect")
    /\ UNCHANGED <<req, ncmVars, parseVars, uplVars>>

\* src/main.py:180-209: the next item: its trimmed name and unit, its view,
\* the map query; without a row the item ends as SEM_MAPEAMENTO.
QueryMapa ==
    /\ an.pc = "loop" /\ an.i <= Len(req.itens)
    /\ LET item == req.itens[an.i]
           nome_prod == nome_prod_of(item)
           unidade == unidade_of(item)
           view_stats == escolhe_view_por_ncm(item.pr_ncm)
       IN  \E fetched \in select_mapa(nome_prod, unidade) :
               IF fetched = <<>>
               THEN an' = [an EXCEPT
                             !.nome_prod = nome_prod, !.unidade = unidade,
                             !.view_stats = view_stats,
                             !.resultados =
                                 Append(@, resultado_sem_mapeamento(nome_prod, unidade)),
                             !.i = @ + 1]
               ELSE an' = [an EXCEPT
                             !.nome_prod = nome_prod, !.unidade = unidade,
                             !.view_stats = view_stats,
                             !.nome_norm = fetched[1].pr_nomeNorm,
                             !.pc = "stats"]
    /\ UNCHANGED <<req, ncmVars, parseVars, uplVars>>

\* The map query raises (server gone).
QueryMapaFails ==
    /\ an.pc = "loop" /\ an.i <= Len(req.itens)
    /\ RaiseAnalisa("query")
    /\ UNCHANGED <<req, ncmVars, parseVars, uplVars>>

\* src/main.py:211-253: the statistics query of the item's view; without a
\* row the item ends as DADOS_INSUFICIENTES, else as OK with the rows.
QueryStats ==
    /\ an.pc = "stats"
    /\ \E fornecedores \in select_stats(an.view_stats, an.nome_norm, an.unidade,
                                        req.n_min, req.limite_fornecedores) :
           an' = [an EXCEPT
                    !.resultados =
                        Append(@, IF fornecedores = <<>>
                                  THEN resultado_dados_insuficientes(
                                           an.nome_prod, an.unidade, an.nome_norm)
                                  ELSE resultado_ok(an.nome_prod, an.unidade,
                                                    an.nome_norm, fornecedores)),
                    !.i = @ + 1,
                    !.pc = "loop"]
    /\ UNCHANGED <<req, ncmVars, parseVars, uplVars>>

\* The statistics query raises.
QueryStatsFails ==
    /\ an.pc = "stats"
    /\ RaiseAnalisa("query")
    /\ UNCHANGED <<req, ncmVars, parseVars, uplVars>>

\* src/main.py:255-257: cur.close(); conn.close(); return {"itens": resultados}
AnalisaReturn ==
    /\ an.pc = "loop" /\ an.i > Len(req.itens)
    /\ an' = [an EXCEPT !.pc = "done", !.conn = "closed",
                        !.response = [status_code |-> 200, itens |-> an.resultados]]
    /\ UNCHANGED <<req, ncmVars, parseVars, uplVars>>

NextAnalisa ==
    \/ AnalisaGetConn \/ AnalisaGetConnFails
    \/ QueryMapa \/ QueryMapaFails
    \/ QueryStats \/ QueryStatsFails
    \/ AnalisaReturn

SpecAnalisa == InitAnalisa /\ [][NextAnalisa]_vars

(***************************************************************************)
(* Claims about analisa                                                    *)
(***************************************************************************)
Answered == an.pc = "done" /\ an.error = ""

\* Stated on the request itself, without the locals of analisa.
Trimmed(s) ==
    LET ink == {i \in 1..Len(s) : s[i] \notin Whitespace}
    IN  IF ink = {} THEN <<>>
        ELSE SubSeq(s, CHOOSE i \in ink : \A j \in ink : i <= j,
                       CHOOSE i \in ink : \A j \in ink : j <= i)

Mapped(item) ==
    \E r \in v_mapa_nomeproduto_norm :
        /\ r.pr_nomeProduto = Trimmed(item.pr_nomeProduto)
        /\ r.pr_unidade = Trimmed(item.pr_unidade)

\* The rows of the item's own view that qualify for the result's normalized name.
Qualifying(item, norm) ==
    {q \in View(escolhe_view_por_ncm(item.pr_ncm)) :
        /\ q.pr_nomeNorm = norm
        /\ q.pr_unidade = Trimmed(item.pr_unidade)
        /\ q.n >= req.n_min}

\* C1: with no database call failing the response holds one result per item,
\* the i-th echoing the trimmed name and unit of the i-th item; an item ending
\* as SEM_MAPEAMENTO or DADOS_INSUFICIENTES does not stop the ones after it.
C1_OneResultPerItem ==
    /\ an.pc \in {"loop", "stats"} => Len(an.resultados) = an.i - 1
    /\ Answered =>
          /\ an.response.status_code = 200
          /\ Len(an.response.itens) = Len(req.itens)
          /\ \A k \in 1..Len(req.itens) :
                 /\ an.response.itens[k].pr_nomeProduto = Trimmed(req.itens[k].pr_nomeProduto)
                 /\ an.response.itens[k].pr_unidade = Trimmed(req.itens[k].pr_unidade)

\* A batch of three was answered SEM_MAPEAMENTO, DADOS_INSUFICIENTES, OK.
C1_Witness ==
    /\ Answered /\ Len(req.itens) = 3 /\ Len(an.response.itens) = 3
    /\ an.response.itens[1].status = "SEM_MAPEAMENTO"
    /\ an.response.itens[2].status = "DADOS_INSUFICIENTES"
    /\ an.response.itens[3].status = "OK"
    /\ req.itens[1].pr_nomeProduto # an.response.itens[1].pr_nomeProduto \/
       req.itens[3].pr_nomeProduto # an.response.itens[3].pr_nomeProduto

\* C2: every result carries one of the three statuses: SEM_MAPEAMENTO iff no
\* map row has the item's exact trimmed (name, unit); DADOS_INSUFICIENTES iff
\* one has and the statistics query gives no row; OK otherwise; and the
\* supplier list is non-empty iff the status is OK.
C2_StatusOfEachResult ==
    an.pc \in {"loop", "stats", "done"} =>
        \A k \in 1..Len(an.resultados) :
            LET r == an.resultados[k]
                item == req.itens[k]
                norow == \/ req.limite_fornecedores = 0
                         \/ Qualifying(item, r.pr_nomeNorm) = {}
            IN  /\ r.status \in {"SEM_MAPEAMENTO", "DADOS_INSUFICIENTES", "OK"}
                /\ r.status = "SEM_MAPEAMENTO" <=> ~Mapped(item)
                /\ r.status = "DADOS_INSUFICIENTES" <=> (Mapped(item) /\ norow)
                /\ r.status = "OK" <=> (Mapped(item) /\ ~norow)
                /\ r.fornecedores # <<>> <=> r.status = "OK"

\* An item whose name is mapped under another unit only ended SEM_MAPEAMENTO,
\* and one with too few observations ended DADOS_INSUFICIENTES.
C2_Witness ==
    /\ Answered
    /\ \E k \in 1..Len(an.resultados) :
           /\ an.resultados[k].status = "SEM_MAPEAMENTO"
           /\ \E r \in v_mapa_nomeproduto_norm :
                  r.pr_nomeProduto = an.resultados[k].pr_nomeProduto
    /\ \E k \in 1..Len(an.resultados) :
           /\ an.resultados[k].status = "DADOS_INSUFICIENTES"
           /\ \E q \in View(escolhe_view_por_ncm(req.itens[k].pr_ncm)) :
                  q.pr_nomeNorm = an.resultados[k].pr_nomeNorm

\* C8: the supplier list of an OK result comes from the view chosen for that
\* item's own tariff code, every quote has the result's normalized name, the
\* trimmed unit and n >= n_min, the list ascends by mean price and holds at
\* most limite_fornecedores quotes.
C8_QuotesOfOwnView ==
    an.pc \in {"loop", "stats", "done"} =>
        \A k \in 1..Len(an.resultados) :
            an.resultados[k].status = "OK" =>
                LET r == an.resultados[k]
                    f == r.fornecedores
                IN  /\ \A j \in 1..Len(f) : f[j] \in Qualifying(req.itens[k], r.pr_nomeNorm)
                    /\ \A i, j \in 1..Len(f) : i < j => f[i].preco_media <= f[j].preco_media
                    /\ Len(f) <= req.limite_fornecedores

\* Two OK results of one batch, one drawn from each view, the short one cut
\* to the limit and holding no quote below n_min.
C8_Witness ==
    /\ Answered
    /\ \E k, m \in 1..Len(an.resultados) :
           /\ an.resultados[k].status = "OK" /\ an.resultados[m].status = "OK"
           /\ escolhe_view_por_ncm(req.itens[k].pr_ncm) = VIEW_7D
           /\ escolhe_view_por_ncm(req.itens[m].pr_ncm) = VIEW_90D
           /\ an.resultados[k].fornecedores[1] \in v_preco_stats_7d
           /\ an.resultados[m].fornecedores[1] \in v_preco_stats_90d
           /\ Len(an.resultados[k].fornecedores) = req.limite_fornecedores
           /\ req.n_min = 3

\* C10: the connection a request opened is closed when the request finishes,
\* on every path, also when a query or the commit fails partway.
C10_ConnectionClosedAtEnd ==
    /\ an.pc = "done" => an.conn # "open"
    /\ \A p \in DOMAIN upl : upl[p].pc = "done" => upl[p].conn # "open"

====
